---------------------------- MODULE Spec2Model ----------------------------
(***************************************************************************)
(* Model of the cosmic-engine astronomical core (utils/astronomy,          *)
(* hooks/useCosmicEngine, utils/config) and of the App state that feeds it.*)
(*                                                                         *)
(* JavaScript numbers are IEEE doubles; the model uses fixed-point         *)
(* integers that fit TLC's 32-bit arithmetic:                              *)
(*   - dimensionless values (sin, cos, cosOmega, alignment, phase0to1)     *)
(*     and radians are scaled by Scale (1 unit = 1e-4);                    *)
(*   - degrees are in millidegrees (1 unit = 0.001 deg);                   *)
(*   - hours are in 1/HourScale hour, HourScale = 15000, so that one unit  *)
(*     is one millidegree of hour angle and the divisions by 15 are exact; *)
(*   - Julian dates and days-since-epoch are in 1/DayScale day;            *)
(*   - orbit positions are scaled by Scale.                                *)
(* Every Math.* routine is computed (range reduction plus a polynomial     *)
(* kernel), with the exact values the IEEE routines have at their special  *)
(* points: sin(0) = 0, cos(0) = 1, acos(1) = 0, acos(-1) = PI,             *)
(* atan2(0, x > 0) = 0, toDegrees(PI) = 180.                               *)
(***************************************************************************)
EXTENDS Integers, Sequences, FiniteSets, TLC

VARIABLES currentDate, timeOfDay, latitude, longitude, useAnalemma,
          solarData, orbitalData,
          now, safeDate, annualData, annualFresh,
          dq, query, dial

(* now:         the wall clock's calendar date, read by new Date()         *)
(* safeDate:    the date the last call of useCosmicEngine worked on        *)
(* annualData:  the memoised annual series                                 *)
(* annualFresh: whether the last call ran the annualData factory           *)
(* dq:          one call of the daylight queries                           *)
(* query:       one call of another pure function, with its result         *)
(* dial:        the CosmicChronometer: activeRing, lastTimeRef, lastDayRef *)
(*              and the date and time props of its last render; start and  *)
(*              net record the date at pointer-down and the midnight       *)
(*              crossings since (forward less backward)                    *)
vars == <<currentDate, timeOfDay, latitude, longitude, useAnalemma,
          solarData, orbitalData, now, safeDate, annualData, annualFresh,
          dq, query, dial>>

appVars == <<currentDate, timeOfDay, latitude, longitude, useAnalemma,
             solarData, orbitalData, now, safeDate, annualData, annualFresh>>

---------------------------------------------------------------------------
(* Fixed-point scales                                                      *)

Scale == 10000

DegScale == 1000

HourScale == 15000

DayScale == 240

(* Math.PI and its multiples, in radians * Scale *)
PI == 31416

TWO_PI == 62832

HALF_PI == 15708

QUARTER_PI == 7854

(* IEEE +Infinity: the quotient x / 0 of a JavaScript division *)
Infinity == 2000000000

---------------------------------------------------------------------------
(* Integer helpers                                                         *)

Abs(x) == IF x < 0 THEN -x ELSE x

Sgn(x) == IF x < 0 THEN -1 ELSE IF x > 0 THEN 1 ELSE 0

MathMax(a, b) == IF a >= b THEN a ELSE b

MathMin(a, b) == IF a <= b THEN a ELSE b

(* a / b rounded to nearest, for a >= 0 and b > 0 *)
RDiv(a, b) == (2 * a + b) \div (2 * b)

(* a * b / c rounded to nearest without overflowing 32 bits,              *)
(* for b >= 0, c > 0 and any sign of a                                     *)
MulDiv(a, b, c) ==
    LET m == Abs(a)
    IN  Sgn(a) * ((m \div c) * b + RDiv((m % c) * b, c))

(* fixed-point product x * y of two Scale-scaled numbers *)
FMul(x, y) == Sgn(x) * Sgn(y) * MulDiv(Abs(x), Abs(y), Scale)

(* JavaScript division x / y of two Scale-scaled numbers; never throws:    *)
(* a zero divisor gives +-Infinity                                         *)
FDiv(x, y) ==
    IF y = 0
    THEN (IF x < 0 THEN -Infinity ELSE Infinity)
    ELSE Sgn(x) * Sgn(y) * MulDiv(Abs(x), Scale, Abs(y))

(* JavaScript remainder a % b: the result takes the sign of the dividend *)
JsMod(a, b) == Sgn(a) * (Abs(a) % Abs(b))

(* floor(sqrt(n)) by bisection on [lo, hi) *)
RECURSIVE SqrtSearch(_, _, _)
SqrtSearch(n, lo, hi) ==
    IF hi - lo <= 1 THEN lo
    ELSE LET mid == (lo + hi) \div 2
         IN  IF mid * mid <= n THEN SqrtSearch(n, mid, hi)
                               ELSE SqrtSearch(n, lo, mid)

ISqrt(n) == SqrtSearch(n, 0, 46341)

---------------------------------------------------------------------------
(* Math.sin / Math.cos / Math.atan2 / Math.acos / Math.asin                *)

(* sine kernel on [0, PI/4]: x (1 - x2/6 (1 - x2/20 (1 - x2/42))) *)
SinKernel(x) ==
    LET x2 == RDiv(x * x, Scale)
    IN  RDiv(x * (Scale - RDiv(RDiv(x2 * (Scale - RDiv(RDiv(x2 *
          (Scale - RDiv(x2, 42)), Scale), 20)), Scale), 6)), Scale)

(* cosine kernel on [0, PI/4]: 1 - x2/2 (1 - x2/12 (1 - x2/30 (1 - x2/56))) *)
CosKernel(x) ==
    LET x2 == RDiv(x * x, Scale)
    IN  Scale - RDiv(RDiv(x2 * (Scale - RDiv(RDiv(x2 * (Scale - RDiv(RDiv(x2 *
          (Scale - RDiv(x2, 56)), Scale), 30)), Scale), 12)), Scale), 2)

(* sine on the first quadrant [0, PI/2] *)
SinQuadrant(r) ==
    IF r <= QUARTER_PI THEN SinKernel(r) ELSE CosKernel(HALF_PI - r)

(* an angle of [0, 2 PI) folded into the first quadrant *)
SinFold(r) ==
    IF r <= HALF_PI THEN r
    ELSE IF r <= PI THEN PI - r
    ELSE IF r <= PI + HALF_PI THEN r - PI
    ELSE TWO_PI - r

(* sine of an angle of [0, 2 PI): negative on the lower half circle *)
SinReduced(r) ==
    IF r <= PI THEN SinQuadrant(SinFold(r)) ELSE -SinQuadrant(SinFold(r))

MathSin(x) == SinReduced(x % TWO_PI)

MathCos(x) == MathSin(x + HALF_PI)

(* arctangent series on [0, tan(PI/8)]:                                    *)
(* t (1 - t2 (1/3 - t2 (1/5 - t2 (1/7 - t2 (1/9 - t2/11)))))               *)
AtanKernel(t) ==
    LET t2 == RDiv(t * t, Scale)
    IN  RDiv(t * (Scale - RDiv(t2 * (RDiv(Scale, 3) - RDiv(t2 *
          (RDiv(Scale, 5) - RDiv(t2 * (RDiv(Scale, 7) - RDiv(t2 *
          (RDiv(Scale, 9) - RDiv(t2 * RDiv(Scale, 11), Scale)),
          Scale)), Scale)), Scale)), Scale)), Scale)

(* arctangent on [0, 1]: atan(t) = PI/4 - atan((1 - t) / (1 + t)) *)
AtanUnit(t) ==
    IF t > 4142
    THEN QUARTER_PI - AtanKernel(RDiv((Scale - t) * Scale, Scale + t))
    ELSE AtanKernel(t)

(* atan(ay / ax) in [0, PI/2] for ax >= 0 and ay >= 0 *)
AtanAcute(ay, ax) ==
    IF ax = 0 /\ ay = 0 THEN 0
    ELSE IF ay <= ax THEN AtanUnit(RDiv(ay * Scale, ax))
    ELSE HALF_PI - AtanUnit(RDiv(ax * Scale, ay))

(* the acute angle a placed in the quadrant of the point (x, y) *)
AtanQuadrant(y, x, a) ==
    IF x >= 0 THEN (IF y >= 0 THEN a ELSE -a)
    ELSE (IF y >= 0 THEN PI - a ELSE a - PI)

(* Math.atan2(y, x) in (-PI, PI]; scale invariant, so large arguments are  *)
(* scaled down before the quotient is formed                               *)
MathAtan2(y, x) ==
    LET k == (MathMax(Abs(x), Abs(y)) \div 100000) + 1
    IN  AtanQuadrant(y, x, AtanAcute(Abs(y) \div k, Abs(x) \div k))

(* Math.acos on [-1, 1] *)
MathAcos(x) == MathAtan2(ISqrt(Scale * Scale - x * x), x)

(* Math.asin on [-1, 1] *)
MathAsin(x) == MathAtan2(x, ISqrt(Scale * Scale - x * x))

---------------------------------------------------------------------------
(* utils/astronomy: angle helpers                                          *)

(* deg * DEG2RAD, DEG2RAD = Math.PI / 180: millidegrees to radians*Scale.  *)
(* PI / 180000 = 1309 / 7500                                               *)
toRadians(deg) == MulDiv(deg, 1309, 7500)

(* rad * RAD2DEG, RAD2DEG = 180 / Math.PI: radians*Scale to millidegrees *)
toDegrees(rad) == MulDiv(rad, 7500, 1309)

(* ((angle % 360) + 360) % 360 *)
normalizeDeg(angle) ==
    JsMod(JsMod(angle, 360 * DegScale) + 360 * DegScale, 360 * DegScale)

---------------------------------------------------------------------------
(* utils/config: CONFIG.SOLAR.TWILIGHT, in millidegrees                    *)

OFFICIAL == -833

CIVIL == -6000

NAUTICAL == -12000

ASTRONOMICAL == -18000

Thresholds == {OFFICIAL, CIVIL, NAUTICAL, ASTRONOMICAL}

---------------------------------------------------------------------------
(* utils/astronomy: daylight queries                                       *)

(* mutant: the latitude is used unclamped *)
safeLatUnclamped(lat) == lat

(* Math.max(-89.9, Math.min(89.9, lat)) *)
safeLat(lat) == MathMax(-89900, MathMin(89900, lat))

(* mutant: sin(alt) + sin(lat) * sin(dec) *)
numeratorSignFlipped(lat, declination, angleThreshold) ==
    MathSin(toRadians(angleThreshold))
      + FMul(MathSin(toRadians(safeLat(lat))), MathSin(toRadians(declination)))

(* sin(alt) - sin(lat) * sin(dec) *)
numerator(lat, declination, angleThreshold) ==
    MathSin(toRadians(angleThreshold))
      - FMul(MathSin(toRadians(safeLat(lat))), MathSin(toRadians(declination)))

(* cos(lat) * cos(dec) *)
denominator(lat, declination) ==
    FMul(MathCos(toRadians(safeLat(lat))), MathCos(toRadians(declination)))

cosOmega(lat, declination, angleThreshold) ==
    FDiv(numerator(lat, declination, angleThreshold),
         denominator(lat, declination))

(* mutant: the hour angle is doubled twice, (4 * omega) / 15 *)
dayLengthOfCosOmegaDoubled(c) ==
    IF c <= -Scale THEN 24 * HourScale
    ELSE IF c >= Scale THEN 0
    ELSE MulDiv(4 * toDegrees(MathAcos(c)), HourScale, 15 * DegScale)

(* if (cosOmega <= -1) return 24.0; if (cosOmega >= 1) return 0.0;         *)
(* omega = toDegrees(Math.acos(cosOmega)); return (2 * omega) / 15         *)
dayLengthOfCosOmega(c) ==
    IF c <= -Scale THEN 24 * HourScale
    ELSE IF c >= Scale THEN 0
    ELSE MulDiv(2 * toDegrees(MathAcos(c)), HourScale, 15 * DegScale)

(* length of day in 1/HourScale hours *)
calculateDaylightDurationPrecise(lat, declination, angleThreshold) ==
    dayLengthOfCosOmega(cosOmega(lat, declination, angleThreshold))

(* mutant: the window is twice as wide *)
sunHoursAroundNoonWide(hourOffset) ==
    <<12 * HourScale - 2 * hourOffset, 12 * HourScale + 2 * hourOffset>>

(* mutant: the hour angle is taken for the whole width of the window *)
sunHoursAroundNoonHalved(hourOffset) ==
    <<12 * HourScale - hourOffset \div 2, 12 * HourScale + hourOffset \div 2>>

(* [12 - hourOffset, 12 + hourOffset] *)
sunHoursAroundNoon(hourOffset) ==
    <<12 * HourScale - hourOffset, 12 * HourScale + hourOffset>>

(* mutant: the two polar sentinels are swapped *)
sunHoursOfCosHSwapped(cosH) ==
    IF cosH < -Scale THEN <<12 * HourScale, 12 * HourScale>>
    ELSE IF cosH > Scale THEN <<0, 24 * HourScale>>
    ELSE sunHoursAroundNoon(
           MulDiv(toDegrees(MathAcos(cosH)), HourScale, 15 * DegScale))

(* if (cosH < -1) return [0, 24]; if (cosH > 1) return [12, 12];           *)
(* H = toDegrees(Math.acos(cosH)); hourOffset = H / 15                     *)
sunHoursOfCosH(cosH) ==
    IF cosH < -Scale THEN <<0, 24 * HourScale>>
    ELSE IF cosH > Scale THEN <<12 * HourScale, 12 * HourScale>>
    ELSE sunHoursAroundNoon(
           MulDiv(toDegrees(MathAcos(cosH)), HourScale, 15 * DegScale))

(* [start, end] in 1/HourScale hours, solar noon at 12:00 UTC *)
getSunHours(lat, declination, angleThreshold) ==
    sunHoursOfCosH(cosOmega(lat, declination, angleThreshold))

---------------------------------------------------------------------------
(* utils/astronomy: Julian date and solar position                         *)

(* J2000_EPOCH = 2451545.0, in days *)
J2000_EPOCH == 2451545

(* A JavaScript Date is modelled by its local calendar fields:             *)
(* [year |-> getFullYear(), month |-> getMonth() (0..11), date |-> getDate()] *)
MkDate(y, m, d) == [year |-> y, month |-> m, date |-> d]

(* mutant: the century correction leaves out the 400-year rule *)
getJulianDateNoCenturyRule(date, t) ==
    LET janFeb == date.month + 1 <= 2
        y == IF janFeb THEN date.year - 1 ELSE date.year
        m == IF janFeb THEN date.month + 1 + 12 ELSE date.month + 1
        A == y \div 100
    IN  DayScale * ((1461 * (y + 4716)) \div 4
                      + (306001 * (m + 1)) \div 10000
                      + date.date + 2 - A)
          - (15245 * DayScale) \div 10
          + MulDiv(t, DayScale, 24 * HourScale)

(* mutant: January and February are not moved to the previous year *)
getJulianDateNoJanFeb(date, t) ==
    LET y == date.year
        m == date.month + 1
        day == date.date
        A == y \div 100
        B == 2 - A + (A \div 4)
    IN  DayScale * ((1461 * (y + 4716)) \div 4
                      + (306001 * (m + 1)) \div 10000
                      + day + B)
          - (15245 * DayScale) \div 10
          + MulDiv(t, DayScale, 24 * HourScale)

(* Julian date in 1/DayScale day from a Date and a decimal UTC hour *)
getJulianDate(date, t) ==
    LET janFeb == date.month + 1 <= 2
        y == IF janFeb THEN date.year - 1 ELSE date.year
        m == IF janFeb THEN date.month + 1 + 12 ELSE date.month + 1
        day == date.date
        A == y \div 100
        B == 2 - A + (A \div 4)
    IN  DayScale * ((1461 * (y + 4716)) \div 4
                      + (306001 * (m + 1)) \div 10000
                      + day + B)
          - (15245 * DayScale) \div 10
          + MulDiv(t, DayScale, 24 * HourScale)

(* Low-precision solar coordinates.  Rates per 1/DayScale day:             *)
(*   0.9856474 deg/day = 4.1069 mdeg, 0.9856003 deg/day = 4.1067 mdeg,     *)
(*   0.0000004 deg/day = 1/600000 mdeg.                                    *)

(* L = normalizeDeg(280.460 + 0.9856474 * n) *)
meanLongitude(n) == normalizeDeg(280460 + MulDiv(n, 41069, 10000))

(* g = normalizeDeg(357.528 + 0.9856003 * n) *)
meanAnomaly(n) == normalizeDeg(357528 + MulDiv(n, 41067, 10000))

(* lambda = L + 1.915 * sin(gRad) + 0.020 * sin(2 * gRad) *)
eclipticLongitude(L, gRad) ==
    L + MulDiv(MathSin(gRad), 1915, Scale) + MulDiv(MathSin(2 * gRad), 20, Scale)

(* epsilon = 23.439 - 0.0000004 * n *)
obliquity(n) == 23439 - MulDiv(n, 1, 600000)

(* alpha = normalizeDeg(toDegrees(atan2(cos(eps) sin(lambda), cos(lambda)))) *)
rightAscension(epsRad, lambdaRad) ==
    normalizeDeg(toDegrees(
      MathAtan2(FMul(MathCos(epsRad), MathSin(lambdaRad)), MathCos(lambdaRad))))

(* declination = toDegrees(asin(sin(eps) * sin(lambda))) *)
solarDeclination(epsRad, lambdaRad) ==
    toDegrees(MathAsin(FMul(MathSin(epsRad), MathSin(lambdaRad))))

(* if (diff > 180) diff -= 360; if (diff < -180) diff += 360 *)
wrapHalfTurn(diff) ==
    LET d == IF diff > 180 * DegScale THEN diff - 360 * DegScale ELSE diff
    IN  IF d < -180 * DegScale THEN d + 360 * DegScale ELSE d

(* equationOfTime = 4 * diff, in 1/1000 minute *)
equationOfTime(L, alpha) == 4 * wrapHalfTurn(L - alpha)

(* { declination, equationOfTime, n } *)
solarCoordinates(n, L, epsRad, lambdaRad) ==
    [declination |-> solarDeclination(epsRad, lambdaRad),
     equationOfTime |-> equationOfTime(L, rightAscension(epsRad, lambdaRad)),
     n |-> n]

(* the solar position n / DayScale days after the J2000 epoch *)
solarPositionOfDays(n) ==
    solarCoordinates(
      n, meanLongitude(n), toRadians(obliquity(n)),
      toRadians(eclipticLongitude(meanLongitude(n), toRadians(meanAnomaly(n)))))

calculateSolarPosition(julianDate) ==
    solarPositionOfDays(julianDate - J2000_EPOCH * DayScale)

---------------------------------------------------------------------------
(* utils/config: CONFIG.ORBIT                                              *)

earthOrbitRadius == 200

moonOrbitRadius == 60

earthRadius == 12

---------------------------------------------------------------------------
(* hooks/useCosmicEngine: orbital physics                                  *)

(* (n / daysInYear) * 2 * Math.PI, daysInYear = 365.25:                    *)
(* TWO_PI / (365.25 * DayScale) = 5236 / 7305                              *)
earthTheta(n) == MulDiv(n, 5236, 7305)

(* { x: earthOrbitRadius * cos(earthTheta), y: ... * sin(earthTheta) } *)
earthPos(theta) ==
    [x |-> earthOrbitRadius * MathCos(theta),
     y |-> earthOrbitRadius * MathSin(theta)]

(* 297.85 + 12.19075 * n in millidegrees:                                  *)
(* 12190.75 / DayScale = 48763 / 960                                       *)
meanElongationDeg(n) == 297850 + MulDiv(n, 48763, 960)

(* earthTheta + Math.PI *)
angleToSun(theta) == theta + PI

(* angleToSun + toRadians(meanElongationDeg) *)
moonTheta(toSun, elongationDeg) == toSun + toRadians(elongationDeg)

moonPos(earth, theta) ==
    [x |-> earth.x + moonOrbitRadius * MathCos(theta),
     y |-> earth.y + moonOrbitRadius * MathSin(theta)]

(* mutant: the arguments of Math.atan2 are swapped *)
angleToMoonSwapped(earth, moon) ==
    MathAtan2(moon.x - earth.x, moon.y - earth.y)

(* Math.atan2(moonPos.y - earthPos.y, moonPos.x - earthPos.x) *)
angleToMoon(earth, moon) == MathAtan2(moon.y - earth.y, moon.x - earth.x)

(* mutant: a negative remainder is not brought back into [0, 2 PI) *)
phaseRadNoWrap(toMoon, toSun) == JsMod(toMoon - toSun, TWO_PI)

(* let phaseRad = (angleToMoon - angleToSun) % (2 * Math.PI);              *)
(* if (phaseRad < 0) phaseRad += 2 * Math.PI;                              *)
phaseRad(toMoon, toSun) ==
    LET r == JsMod(toMoon - toSun, TWO_PI)
    IN  IF r < 0 THEN r + TWO_PI ELSE r

(* phaseRad / (2 * Math.PI).  An IEEE quotient x / y with 0 <= x < y is    *)
(* below 1, so the fixed-point quotient truncates.                         *)
phase0to1(rad) == (rad * Scale) \div TWO_PI

(* mutant: the angle between moon and sun is not doubled *)
alignmentFactorSingleAngle(toMoon, toSun) == MathCos(toMoon - toSun)

(* Math.cos(2 * (angleToMoon - angleToSun)) *)
alignmentFactor(toMoon, toSun) == MathCos(2 * (toMoon - toSun))

(* mutant: the Spring comparison is >= instead of > *)
tideTypeInclusive(alignment) ==
    IF alignment >= 8000 THEN "Spring Tide"
    ELSE IF alignment < -8000 THEN "Neap Tide"
    ELSE "Transitional"

(* alignment > 0.8 ? "Spring Tide" : (alignment < -0.8 ? "Neap Tide" : ...) *)
tideType(alignment) ==
    IF alignment > 8000 THEN "Spring Tide"
    ELSE IF alignment < -8000 THEN "Neap Tide"
    ELSE "Transitional"

(* ((timeOfDay - 12) * 15) + longitude, in millidegrees *)
userRotation(t, lon) ==
    MulDiv(t - 12 * HourScale, 15 * DegScale, HourScale) + lon

(* mutant: a negative remainder is not brought back into [0, 360) *)
tideDiffNoWrap(t, lon, phase) ==
    LET moonPhaseAngleDeg == phase * ((360 * DegScale) \div Scale)
    IN  JsMod(userRotation(t, lon) - moonPhaseAngleDeg, 360 * DegScale)

(* diff of the observer's rotation and the moon's phase angle, in [0, 360) *)
tideDiff(t, lon, phase) ==
    LET moonPhaseAngleDeg == phase * ((360 * DegScale) \div Scale)
        d == JsMod(userRotation(t, lon) - moonPhaseAngleDeg, 360 * DegScale)
    IN  IF d < 0 THEN d + 360 * DegScale ELSE d

isHighTide(t, lon, phase) ==
    LET diff == tideDiff(t, lon, phase)
    IN  \/ diff <= 45 * DegScale
        \/ diff >= 315 * DegScale
        \/ (diff >= 135 * DegScale /\ diff <= 225 * DegScale)

getPhaseName(p) ==
    IF p < 300 \/ p > 9700 THEN "New Moon"
    ELSE IF p < 2200 THEN "Waxing Crescent"
    ELSE IF p < 2800 THEN "First Quarter"
    ELSE IF p < 4700 THEN "Waxing Gibbous"
    ELSE IF p < 5300 THEN "Full Moon"
    ELSE IF p < 7200 THEN "Waning Gibbous"
    ELSE IF p < 7800 THEN "Last Quarter"
    ELSE "Waning Crescent"

(* PhaseVisual's getPhaseLabel, the name drawn under the moon disc *)
getPhaseLabel(phase) ==
    IF phase <= 200 \/ phase >= 9800 THEN "New Moon"
    ELSE IF phase < 2400 THEN "Waxing Crescent"
    ELSE IF phase < 2600 THEN "First Quarter"
    ELSE IF phase < 4800 THEN "Waxing Gibbous"
    ELSE IF phase <= 5200 THEN "Full Moon"
    ELSE IF phase < 7400 THEN "Waning Gibbous"
    ELSE IF phase < 7600 THEN "Last Quarter"
    ELSE "Waning Crescent"

---------------------------------------------------------------------------
(* hooks/useCosmicEngine: the engineData memo                              *)

(* eotCorrection = useAnalemma ? equationOfTime : 0 *)
eotCorrection(sp, analemma) == IF analemma THEN sp.equationOfTime ELSE 0

(* solarNoon = 12 - (longitude / 15) - (eotCorrection / 60) *)
solarNoon(lon, eot) ==
    12 * HourScale - MulDiv(lon, HourScale, 15 * DegScale)
                   - MulDiv(eot, HourScale, 60 * 1000)

(* the solarData object *)
(* mutant: the civil and the nautical thresholds are exchanged *)
solarDataTwilightSwapped(lat, declination, n, eot, noon, dayLen) ==
    [dayLength |-> dayLen,
     civil |-> calculateDaylightDurationPrecise(lat, declination, NAUTICAL),
     nautical |-> calculateDaylightDurationPrecise(lat, declination, CIVIL),
     astronomical |->
       calculateDaylightDurationPrecise(lat, declination, ASTRONOMICAL),
     sunrise |-> noon - (dayLen \div 2),
     sunset |-> noon + (dayLen \div 2),
     solarNoon |-> noon,
     equationOfTime |-> eot,
     daysSinceEpoch |-> n,
     noonElevation |-> 90 * DegScale - Abs(lat - declination),
     declination |-> declination,
     isPolarNight |-> dayLen <= 0,
     isMidnightSun |-> dayLen >= 24 * HourScale]

(* mutant: the two flags use strict comparisons *)
solarDataStrictFlags(lat, declination, n, eot, noon, dayLen) ==
    [dayLength |-> dayLen,
     civil |-> calculateDaylightDurationPrecise(lat, declination, CIVIL),
     nautical |-> calculateDaylightDurationPrecise(lat, declination, NAUTICAL),
     astronomical |->
       calculateDaylightDurationPrecise(lat, declination, ASTRONOMICAL),
     sunrise |-> noon - (dayLen \div 2),
     sunset |-> noon + (dayLen \div 2),
     solarNoon |-> noon,
     equationOfTime |-> eot,
     daysSinceEpoch |-> n,
     noonElevation |-> 90 * DegScale - Abs(lat - declination),
     declination |-> declination,
     isPolarNight |-> dayLen < 0,
     isMidnightSun |-> dayLen > 24 * HourScale]

solarDataOf(lat, declination, n, eot, noon, dayLen) ==
    [dayLength |-> dayLen,
     civil |-> calculateDaylightDurationPrecise(lat, declination, CIVIL),
     nautical |-> calculateDaylightDurationPrecise(lat, declination, NAUTICAL),
     astronomical |->
       calculateDaylightDurationPrecise(lat, declination, ASTRONOMICAL),
     sunrise |-> noon - (dayLen \div 2),
     sunset |-> noon + (dayLen \div 2),
     solarNoon |-> noon,
     equationOfTime |-> eot,
     daysSinceEpoch |-> n,
     noonElevation |-> 90 * DegScale - Abs(lat - declination),
     declination |-> declination,
     isPolarNight |-> dayLen <= 0,
     isMidnightSun |-> dayLen >= 24 * HourScale]

(* solar noon and day length of the solar position sp *)
solarDataAt(sp, lat, lon, eot) ==
    solarDataOf(lat, sp.declination, sp.n, eot, solarNoon(lon, eot),
                calculateDaylightDurationPrecise(lat, sp.declination, OFFICIAL))

(* tideRx = earthRadius + 4 + 6 + (3 * alignmentFactor) *)
tideRx(alignment) == (earthRadius + 4 + 6) * Scale + 3 * alignment

(* the orbitalData object *)
orbitalDataOf(t, lon, ePos, mPos, toSun, toMoon, phase, alignment) ==
    [positions |-> [sun |-> [x |-> 0, y |-> 0], earth |-> ePos, moon |-> mPos],
     angles |->
       [toSun |-> toSun,
        toMoon |-> toMoon,
        sunDegrees |-> toDegrees(MathAtan2(MathSin(toSun), MathCos(toSun))),
        moonDegrees |-> toDegrees(toMoon)],
     phase |-> [value |-> phase, name |-> getPhaseName(phase)],
     tides |-> [rx |-> tideRx(alignment),
                ry |-> (earthRadius + 4) * Scale,
                type |-> tideType(alignment),
                alignment |-> alignment],
     userRotation |-> userRotation(t, lon),
     localTideStatus |->
       IF isHighTide(t, lon, phase) THEN "High Tide" ELSE "Low Tide"]

(* phase and alignment from the two angles *)
orbitalFromAngles(t, lon, ePos, mPos, toSun, toMoon) ==
    orbitalDataOf(t, lon, ePos, mPos, toSun, toMoon,
                  phase0to1(phaseRad(toMoon, toSun)),
                  alignmentFactor(toMoon, toSun))

(* the angle from the earth to the moon *)
orbitalFromMoon(t, lon, ePos, mPos, toSun) ==
    orbitalFromAngles(t, lon, ePos, mPos, toSun, angleToMoon(ePos, mPos))

(* the moon's position from the earth's position *)
orbitalFromEarth(t, lon, n, ePos, toSun) ==
    orbitalFromMoon(t, lon, ePos,
                    moonPos(ePos, moonTheta(toSun, meanElongationDeg(n))), toSun)

(* the orbital physics n / DayScale days after the J2000 epoch *)
orbitalDataAt(t, lon, n) ==
    orbitalFromEarth(t, lon, n, earthPos(earthTheta(n)),
                     angleToSun(earthTheta(n)))

(* return { solarData, orbitalData } *)
engineOfSolarPosition(sp, t, lat, lon, analemma) ==
    [solarData |-> solarDataAt(sp, lat, lon, eotCorrection(sp, analemma)),
     orbitalData |-> orbitalDataAt(t, lon, sp.n)]

(* the engineData memo *)
engineData(date, t, lat, lon, analemma) ==
    engineOfSolarPosition(calculateSolarPosition(getJulianDate(date, t)),
                          t, lat, lon, analemma)

---------------------------------------------------------------------------
(* Bounds and input sets                                                   *)

(* days after each anchor date that the date controls reach *)
SpanDays == 1

(* longitude grid: LonSteps steps on each side of the prime meridian *)
LonSteps == 2

(* latitude grid of the daylight queries, steps per hemisphere *)
LatSteps == 6

(* declination grid of the daylight queries, steps per sign *)
DecSteps == 2

isLeapYear(y) == (y % 4 = 0 /\ y % 100 # 0) \/ y % 400 = 0

daysInMonth(y, m) ==
    IF m = 1 THEN (IF isLeapYear(y) THEN 29 ELSE 28)
    ELSE IF m \in {3, 5, 8, 10} THEN 30
    ELSE 31

(* date.setDate(date.getDate() + 1): the Date normalises day overflow *)
nextDay(date) ==
    IF date.date + 1 <= daysInMonth(date.year, date.month)
    THEN MkDate(date.year, date.month, date.date + 1)
    ELSE IF date.month = 11 THEN MkDate(date.year + 1, 0, 1)
    ELSE MkDate(date.year, date.month + 1, 1)

RECURSIVE addDays(_, _)
addDays(date, k) == IF k = 0 THEN date ELSE addDays(nextDay(date), k - 1)

(* new Date(2023, 5, 21): the App's initial date *)
InitialDate == MkDate(2023, 5, 21)

(* anchor dates: before and after J2000, around the new moons of           *)
(* 1999-12-07 and 2000-01-06, a quadrature-to-syzygy midpoint (2011-06-27, *)
(* alignment 0 at 06:00), an alignment of exactly 0.8 (2014-04-28 at       *)
(* 00:00), and the App's initial date                                      *)
AnchorDates ==
    {MkDate(1999, 11, 7), MkDate(1999, 11, 31), MkDate(2000, 0, 6),
     MkDate(2011, 5, 27), MkDate(2014, 3, 28), InitialDate}

(* the anchors the date ring is dragged on from: the day before the wrap   *)
(* of the phase and the day before J2000                                   *)
SpanAnchors == {MkDate(1999, 11, 7), MkDate(1999, 11, 31)}

Dates == AnchorDates \cup {addDays(a, k) : a \in SpanAnchors, k \in 1..SpanDays}

(* decimal UTC hours 0, 6, 12, 14.4 and 18 in 1/HourScale h; 14.4 h is the *)
(* new moon of 2000-01-06                                                  *)
Times == {0, 90000, 180000, 216000, 270000}

Longitudes ==
    {k * ((180 * DegScale) \div LonSteps) : k \in (-LonSteps)..LonSteps}

(* the App's initial latitude and the two poles *)
Latitudes == {-90000, 51500, 90000}

(* latitudes of the daylight queries: a grid, the poles, the clamp limits, *)
(* values beyond the clamp, the slider presets and the polar-circle        *)
(* boundaries of the twilight thresholds                                   *)
QueryLatitudes ==
    {k * ((90 * DegScale) \div LatSteps) : k \in (-LatSteps)..LatSteps}
      \cup {-90000, -89950, -89900, -84000, -66500, -23400,
            23400, 51500, 66500, 72000, 78000, 84000, 89900, 89950, 90000}

QueryDeclinations ==
    {k * (23440 \div DecSteps) : k \in (-DecSteps)..DecSteps}
      \cup {-23440, -12000, 0, 12000, 23440}

---------------------------------------------------------------------------
(* utils/astronomy: formatTime, and the parsing of its text by the         *)
(* precise-input panel                                                     *)

(* a JavaScript number with the value x, against null, undefined and NaN *)
Num(x) == [type |-> "number", value |-> x]

Null == [type |-> "null"]

Undefined == [type |-> "undefined"]

NaN == [type |-> "NaN"]

(* isNaN(v): Number(undefined) is NaN, Number(null) is 0 *)
isNaN(v) == v = NaN \/ v = Undefined

(* the number an arithmetic operator makes of v: Number(null) is 0 *)
toNumber(v) == IF v = Null THEN 0 ELSE v.value

(* mutant: null is not tested *)
isUnformattableNoNull(v) == isNaN(v)

(* isNaN(decimalHours) || decimalHours === null *)
isUnformattable(v) == isNaN(v) \/ v = Null

(* a text is the sequence of its characters; v.toString().padStart(2, '0') *)
(* for an integer 0 <= v <= 99                                             *)
Digits == <<"0", "1", "2", "3", "4", "5", "6", "7", "8", "9">>

padStart2(v) ==
    IF v < 10 THEN <<"0", Digits[v + 1]>>
    ELSE <<Digits[(v \div 10) + 1], Digits[(v % 10) + 1]>>

(* [hours, minutes, seconds].map(pad).join(':') *)
joinTime(hms) ==
    padStart2(hms[1]) \o <<":">> \o padStart2(hms[2]) \o <<":">>
      \o padStart2(hms[3])

(* mutant: the hour 24 is not wrapped to 0 *)
carryTimeNoHourWrap(hours, minutes, seconds) ==
    IF seconds = 60
    THEN (IF minutes + 1 = 60 THEN <<hours + 1, 0, 0>>
                              ELSE <<hours, minutes + 1, 0>>)
    ELSE <<hours, minutes, seconds>>

(* if (seconds === 60) ...; if (minutes === 60) ...; if (hours === 24) ... *)
carryTime(hours, minutes, seconds) ==
    IF seconds = 60
    THEN (IF minutes + 1 = 60
          THEN <<(IF hours + 1 = 24 THEN 0 ELSE hours + 1), 0, 0>>
          ELSE <<hours, minutes + 1, 0>>)
    ELSE IF minutes = 60
    THEN <<(IF hours + 1 = 24 THEN 0 ELSE hours + 1), 0, seconds>>
    ELSE <<(IF hours = 24 THEN 0 ELSE hours), minutes, seconds>>

(* hours = floor(normalized), minutes = floor((normalized - hours) * 60),  *)
(* seconds = Math.round(((normalized - hours) * 60 - minutes) * 60),       *)
(* for normalized in 1/HourScale hour; minuteUnits is (normalized - hours) *)
(* * 60 in 1/HourScale minute                                              *)
splitTime(normalized, minuteUnits) ==
    carryTime(normalized \div HourScale,
              minuteUnits \div HourScale,
              RDiv((minuteUnits % HourScale) * 60, HourScale))

(* normalized = ((decimalHours % 24) + 24) % 24 *)
normalizeHours(decimalHours) ==
    JsMod(JsMod(decimalHours, 24 * HourScale) + 24 * HourScale, 24 * HourScale)

formatTime(decimalHours) ==
    IF isUnformattable(decimalHours) THEN <<"-", "-", ":", "-", "-">>
    ELSE joinTime(splitTime(
           normalizeHours(toNumber(decimalHours)),
           (normalizeHours(toNumber(decimalHours)) % HourScale) * 60))

(* text.split(':'): the fields between the colons *)
RECURSIVE split(_)
split(text) ==
    IF \A i \in 1..Len(text) : text[i] # ":" THEN <<text>>
    ELSE LET i == CHOOSE j \in 1..Len(text) :
                    text[j] = ":" /\ \A k \in 1..(j - 1) : text[k] # ":"
         IN  <<SubSeq(text, 1, i - 1)>> \o split(SubSeq(text, i + 1, Len(text)))

(* Number(field) of a field of decimal digits; NaN for any other field *)
RECURSIVE Number(_)
Number(field) ==
    IF field = <<>> THEN Num(0)
    ELSE IF \E i \in 1..Len(field) : \A d \in 1..10 : Digits[d] # field[i]
    THEN NaN
    ELSE Num(10 * Number(SubSeq(field, 1, Len(field) - 1)).value
             + (CHOOSE d \in 0..9 : Digits[d + 1] = field[Len(field)]))

(* mutant: the minutes are taken as hundredths of an hour *)
parseTimeHundredths(localTime) ==
    IF Number(split(localTime)[1]) = NaN \/ Number(split(localTime)[2]) = NaN
    THEN NaN
    ELSE Num(Number(split(localTime)[1]).value * HourScale
             + Number(split(localTime)[2]).value * (HourScale \div 100))

(* const [h, min] = localTime.split(':').map(Number); h + min / 60 *)
parseTime(localTime) ==
    IF Number(split(localTime)[1]) = NaN \/ Number(split(localTime)[2]) = NaN
    THEN NaN
    ELSE Num(Number(split(localTime)[1]).value * HourScale
             + Number(split(localTime)[2]).value * (HourScale \div 60))

(* the arguments of formatTime: a grid of times from before 0 to after 24 *)
(* hours, times whose seconds round up to 60, and the values that are no  *)
(* number                                                                  *)
FormatSteps == 60

FormatInputs ==
    {Null, Undefined, NaN}
      \cup {Num(x) : x \in {k * 7499 : k \in (-FormatSteps)..FormatSteps}
                            \cup {-1, 164999, 359998, 359999, 360000}}

(* the arguments of getPhaseName: the phase fractions from 0 in steps of   *)
(* 0.005, the eight bucket boundaries among them                           *)
PhaseInputs == {k * (Scale \div 200) : k \in 0..199}

(* the arguments of getJulianDate: the first day and the last days of      *)
(* every month of the century years 1900 and 2000, a common year and a     *)
(* leap year, at 00:00 and at 18:00                                        *)
JulianDates ==
    {date \in {MkDate(y, m, d) : y \in {1900, 2000, 2023, 2024},
                                m \in 0..11, d \in {1, 28, 29, 30, 31}} :
        date.date <= daysInMonth(date.year, date.month)}

(* the dates the dial is followed on: the days around the App's initial    *)
(* date and around both ends of its year; a move that leads elsewhere is   *)
(* not followed                                                            *)
DialDates ==
    {MkDate(2022, 11, 31), MkDate(2023, 0, 1),
     MkDate(2023, 5, 20), MkDate(2023, 5, 21), MkDate(2023, 5, 22),
     MkDate(2023, 11, 31), MkDate(2024, 0, 1)}

(* positions of the pointer on the latitude slider, in 1/1000 of the       *)
(* track from its top: above the track, its top, middle and bottom, and    *)
(* below the track                                                         *)
SliderPositions == {-500, 0, 500, 1000, 1500}

(* the slider ticks followed, of the seven presets: N, EQ and S *)
PresetLatitudes == {90 * DegScale, 0, -90 * DegScale}

(* entries of the precise-input form for latitude and longitude: beyond    *)
(* both ranges on either side, and 0                                       *)
PreciseEntries == {-200 * DegScale, 0, 200 * DegScale}

(* angles of the pointer on the longitude ring *)
LonRingAngles == {0, 90000, 180000, 181000, 270000}

(* pointer-down distances from the dial centre, in 1/10 viewBox unit:      *)
(* inside no hit zone (20, 170), in the middle of each ring (65, 100,      *)
(* 135), and in the outer part of the bands of the longitude ring (75) and *)
(* of the time ring (110)                                                  *)
DialDistances == {200, 650, 750, 1000, 1100, 1350, 1700}

---------------------------------------------------------------------------
(* hooks/useCosmicEngine: the date guard and the annual series             *)

(* values of the date argument that are no valid Date: null, undefined, a  *)
(* value that is not a Date (a date string), and an Invalid Date           *)
NotADate == [type |-> "string"]

InvalidDate == [type |-> "Invalid Date"]

(* a Date whose calendar fields are numbers *)
isValidDate(date) == DOMAIN date = {"year", "month", "date"}

(* date instanceof Date *)
instanceOfDate(date) == isValidDate(date) \/ date = InvalidDate

(* isNaN(date): the time value of an Invalid Date is NaN *)
isNaNDate(date) == date = InvalidDate

(* mutant: the date is used unguarded *)
safeDateUnguarded(date, clock) == date

(* date instanceof Date && !isNaN(date) ? date : new Date() *)
safeDateOf(date, clock) ==
    IF instanceOfDate(date) /\ ~isNaNDate(date) THEN date ELSE clock

(* the last index of the annual loop: for (let i = 0; i <= 365; i++) *)
LastDayIndex == 365

(* parseFloat(x.toFixed(2)): hours rounded to two decimals, in 1/100 hour *)
toFixed2(hours) == RDiv(hours * 100, HourScale)

(* days of the year before month m (0..11) *)
daysBeforeMonth(year, m) ==
    <<0, 31, 59, 90, 120, 151, 181, 212, 243, 273, 304, 334>>[m + 1]
      + (IF m >= 2 /\ isLeapYear(year) THEN 1 ELSE 0)

(* the month (0..11) that holds day index i (0-based) of the year *)
monthOfDayIndex(year, i) ==
    CHOOSE m \in 0..11 :
        /\ daysBeforeMonth(year, m) <= i
        /\ (m = 11 \/ i < daysBeforeMonth(year, m + 1))

(* new Date(year, 0, i + 1) for i in 0..365: the Date normalises the day   *)
(* overflow, into the following January for i = 365 of a common year       *)
dayOfYear(year, i) ==
    IF i >= 365 + (IF isLeapYear(year) THEN 1 ELSE 0)
    THEN MkDate(year + 1, 0, i - 364 - (IF isLeapYear(year) THEN 1 ELSE 0))
    ELSE MkDate(year, monthOfDayIndex(year, i),
                i - daysBeforeMonth(year, monthOfDayIndex(year, i)) + 1)

(* data.push({ day: i + 1, length: ... }) *)
annualEntry(lat, year, i) ==
    [day |-> i + 1,
     length |->
       toFixed2(calculateDaylightDurationPrecise(
         lat,
         calculateSolarPosition(
           getJulianDate(dayOfYear(year, i), 12 * HourScale)).declination,
         OFFICIAL))]

(* mutant: one entry per calendar day of the year *)
annualSeriesCalendarYear(lat, year) ==
    [k \in 1..(IF isLeapYear(year) THEN 366 ELSE 365) |->
       annualEntry(lat, year, k - 1)]

(* the annualData factory: the loop over i = 0 .. 365 *)
annualSeries(lat, year) ==
    [k \in 1..(LastDayIndex + 1) |-> annualEntry(lat, year, k - 1)]

(* the wall clock when the App is mounted, and later wall-clock dates at   *)
(* which the hook is called                                                *)
MountDate == MkDate(2026, 10, 4)

ClockDates == {MountDate, MkDate(2026, 11, 31), MkDate(2027, 0, 1)}

(* dates handed to the hook directly: the invalid values, the App's        *)
(* initial date, the two sides of a new year before a leap year, and the   *)
(* dates of a new moon (2000-01-06 at 14:24), a first quarter (2024-07-13  *)
(* at 18:00), a full moon (2014-04-14 at 18:00) and a last quarter         *)
(* (2011-04-25 at 12:00) of the mean elongation                            *)
HookDates ==
    {Null, Undefined, NotADate, InvalidDate,
     InitialDate, MkDate(2023, 11, 31), MkDate(2024, 0, 1),
     MkDate(2000, 0, 6), MkDate(2024, 6, 13), MkDate(2014, 3, 14),
     MkDate(2011, 3, 25)}

(* the years the annual series is asked for *)
AnnualYears ==
    {d.year : d \in Dates \cup ClockDates \cup DialDates
                      \cup {h \in HookDates : isValidDate(h)}}

(* the factory's result for each (latitude, year), computed once *)
annualSeriesOf ==
    [lat \in Latitudes \cup PresetLatitudes, year \in AnnualYears
        |-> annualSeries(lat, year)]

(* getJulianDate reads getFullYear(), getMonth() and getDate() of its      *)
(* argument: a TypeError on a value that is no Date, NaN on an Invalid     *)
(* Date, and NaN spreads to every number computed from it                  *)
Thrown == [error |-> "TypeError"]

NaNResult == [number |-> "NaN"]

engineResult(date, t, lat, lon, analemma) ==
    IF isValidDate(date) THEN engineData(date, t, lat, lon, analemma)
    ELSE IF date = InvalidDate
    THEN [solarData |-> NaNResult, orbitalData |-> NaNResult]
    ELSE [solarData |-> Thrown, orbitalData |-> Thrown]

(* mutant: the memo depends on the latitude only *)
annualDepsChangedOnLatitude(lat, date) == lat # latitude

(* mutant: the memo depends on the date instead of the year *)
annualDepsChangedOnDate(lat, date) ==
    \/ lat # latitude
    \/ date # safeDate

(* useMemo(..., [latitude, year]): the factory runs when a dependency      *)
(* differs from the previous call's                                        *)
annualDepsChanged(lat, date) ==
    \/ ~isValidDate(date)
    \/ ~isValidDate(safeDate)
    \/ lat # latitude
    \/ date.year # safeDate.year

annualResult(lat, date) ==
    IF isValidDate(date) THEN annualSeriesOf[lat, date.year]
    ELSE IF date = InvalidDate THEN NaNResult
    ELSE Thrown

---------------------------------------------------------------------------
(* components/controls/Inputs: the CosmicChronometer dial                  *)

(* RINGS, r and w in viewBox units *)
RINGS ==
    [DATE |-> [r |-> 135, w |-> 25],
     TIME |-> [r |-> 100, w |-> 25],
     LON |-> [r |-> 65, w |-> 25]]

(* checkHit: dist >= r - w/2 - 15 && dist <= r + w/2 + 15, dist in 1/10    *)
(* viewBox unit                                                            *)
checkHit(config, dist) ==
    /\ dist >= 10 * config.r - 5 * config.w - 150
    /\ dist <= 10 * config.r + 5 * config.w + 150

(* Math.floor((date - new Date(year, 0, 0)) / oneDay), without a change of *)
(* the clock's offset within the year                                      *)
getDayOfYear(date) == daysBeforeMonth(date.year, date.month) + date.date

(* date = new Date(year, 0); date.setDate(day): day 0 is the last day of   *)
(* the year before                                                         *)
getDateFromDayOfYear(year, day) ==
    IF day = 0 THEN MkDate(year - 1, 11, 31) ELSE dayOfYear(year, day - 1)

(* date.setDate(date.getDate() - 1): the Date normalises day 0 *)
prevDay(date) ==
    IF date.date > 1 THEN MkDate(date.year, date.month, date.date - 1)
    ELSE IF date.month = 0 THEN MkDate(date.year - 1, 11, 31)
    ELSE MkDate(date.year, date.month - 1,
                daysInMonth(date.year, date.month - 1))

(* ControlRing draws the ring as a circle of radius r and stroke width w:  *)
(* the band from r - w/2 to r + w/2, dist in 1/10 viewBox unit             *)
drawnBand(config, dist) ==
    /\ dist >= 10 * config.r - 5 * config.w
    /\ dist <= 10 * config.r + 5 * config.w

(* newLon = angle; if (newLon > 180) newLon -= 360; Math.round(newLon) *)
ringLongitude(angle) ==
    RDiv(IF angle > 180 * DegScale THEN angle - 360 * DegScale ELSE angle,
         DegScale) * DegScale

(* updateValue of the latitude slider: pct = y / rect.height, kept in      *)
(* [0, 1]; Math.round(90 - pct * 180); pct in 1/1000                       *)
sliderLatitude(pct) ==
    RDiv(90 * 1000 - MathMax(0, MathMin(1000, pct)) * 180, 1000) * DegScale

(* handleSave: Math.max(-90, Math.min(90, Number(localLat))) *)
preciseLatitude(entry) ==
    MathMax(-90 * DegScale, MathMin(90 * DegScale, entry))

(* mutant: the longitude entry is committed as typed *)
preciseLongitudeAsTyped(entry) == entry

(* handleSave: Math.max(-180, Math.min(180, Number(localLon))) *)
preciseLongitude(entry) ==
    MathMax(-180 * DegScale, MathMin(180 * DegScale, entry))

---------------------------------------------------------------------------
(* State machine                                                           *)

(* one call of formatTime, and the time the precise-input panel saves     *)
(* from the text                                                           *)
FormatQuery(v) ==
    [fn |-> "formatTime", input |-> v, text |-> formatTime(v),
     parsed |-> parseTime(formatTime(v))]

(* one call of each daylight query on the same arguments *)
DaylightQuery(lat, dec, thr) ==
    [lat |-> lat, dec |-> dec, thr |-> thr,
     dayLength |-> calculateDaylightDurationPrecise(lat, dec, thr),
     sunHours |-> getSunHours(lat, dec, thr)]

(* App: useState initial values, then the first render runs the engine *)
Init ==
    /\ currentDate = InitialDate
    /\ timeOfDay = 12 * HourScale
    /\ latitude = 51500
    /\ longitude = 0
    /\ useAnalemma = TRUE
    /\ now = MountDate
    /\ safeDate = safeDateOf(InitialDate, now)
    /\ \E e \in {engineResult(safeDate, 12 * HourScale, 51500, 0, TRUE)} :
           /\ solarData = e.solarData
           /\ orbitalData = e.orbitalData
    /\ annualData = annualResult(51500, safeDate)
    /\ annualFresh = TRUE
    /\ dq = DaylightQuery(51500, 23440, OFFICIAL)
    /\ query = FormatQuery(Num(12 * HourScale))
    /\ dial = [activeRing |-> "none", lastTime |-> 12 * HourScale,
               lastDay |-> getDayOfYear(InitialDate), date |-> InitialDate,
               time |-> 12 * HourScale, start |-> InitialDate, net |-> 0]

(* one render of the App: a call of useCosmicEngine (the date guard, the   *)
(* engineData memo and the annualData memo), and the chronometer rendered  *)
(* with the date and time as props                                        *)
Render(date, t, lat, lon, analemma) ==
    \E sd \in {safeDateOf(date, now)} :
        /\ safeDate' = sd
        /\ \E e \in {engineResult(sd, t, lat, lon, analemma)} :
               /\ solarData' = e.solarData
               /\ orbitalData' = e.orbitalData
        /\ IF annualDepsChanged(lat, sd)
           THEN /\ annualData' = annualResult(lat, sd)
                /\ annualFresh' = TRUE
           ELSE /\ annualData' = annualData
                /\ annualFresh' = FALSE
        /\ dial' = [dial EXCEPT !.date = date, !.time = t]

(* onDateChange = setCurrentDate *)
SetCurrentDate(d) ==
    /\ currentDate' = d
    /\ UNCHANGED <<timeOfDay, latitude, longitude, useAnalemma, now, dq, query>>
    /\ Render(d, timeOfDay, latitude, longitude, useAnalemma)

(* onTimeChange = setTimeOfDay *)
SetTimeOfDay(t) ==
    /\ timeOfDay' = t
    /\ UNCHANGED <<currentDate, latitude, longitude, useAnalemma, now, dq, query>>
    /\ Render(currentDate, t, latitude, longitude, useAnalemma)

(* onLatChange = setLatitude *)
SetLatitude(lat) ==
    /\ latitude' = lat
    /\ UNCHANGED <<currentDate, timeOfDay, longitude, useAnalemma, now, dq, query>>
    /\ Render(currentDate, timeOfDay, lat, longitude, useAnalemma)

(* onLonChange = setLongitude *)
SetLongitude(lon) ==
    /\ longitude' = lon
    /\ UNCHANGED <<currentDate, timeOfDay, latitude, useAnalemma, now, dq, query>>
    /\ Render(currentDate, timeOfDay, latitude, lon, useAnalemma)

Next ==
    \/ \E d \in Dates : SetCurrentDate(d)
    \/ \E t \in Times : SetTimeOfDay(t)
    \/ \E lat \in Latitudes : SetLatitude(lat)
    \/ \E lon \in Longitudes : SetLongitude(lon)

Spec == Init /\ [][Next]_vars

(* the hook called directly: its fifth argument changes *)
SetUseAnalemma(flag) ==
    /\ useAnalemma' = flag
    /\ UNCHANGED <<currentDate, timeOfDay, latitude, longitude, now, dq, query>>
    /\ Render(currentDate, timeOfDay, latitude, longitude, flag)

(* the caller renders again and calls the hook with the same arguments *)
Rerender ==
    /\ UNCHANGED <<currentDate, timeOfDay, latitude, longitude, useAnalemma,
                   now, dq, query>>
    /\ Render(currentDate, timeOfDay, latitude, longitude, useAnalemma)

(* the wall clock moves on to a later date; no call of the hook *)
Tick(clock) ==
    /\ clock.year * 10000 + clock.month * 100 + clock.date
         > now.year * 10000 + now.month * 100 + now.date
    /\ now' = clock
    /\ UNCHANGED <<currentDate, timeOfDay, latitude, longitude, useAnalemma,
                   solarData, orbitalData, safeDate, annualData, annualFresh,
                   dq, query, dial>>

NextHook ==
    \/ \E d \in HookDates : SetCurrentDate(d)
    \/ \E t \in {180000, 216000, 270000} : SetTimeOfDay(t)
    \/ \E lat \in {-90000, 51500} : SetLatitude(lat)
    \/ \E lon \in {0, 90000} : SetLongitude(lon)
    \/ \E flag \in BOOLEAN : SetUseAnalemma(flag)
    \/ \E clock \in ClockDates : Tick(clock)
    \/ Rerender

SpecHook == Init /\ [][NextHook]_vars

(* the daylight queries as pure functions: each step is one call with one  *)
(* argument changed                                                        *)
QueryLatitude(lat) ==
    /\ dq' = DaylightQuery(lat, dq.dec, dq.thr)
    /\ UNCHANGED <<appVars, query, dial>>

QueryDeclination(dec) ==
    /\ dq' = DaylightQuery(dq.lat, dec, dq.thr)
    /\ UNCHANGED <<appVars, query, dial>>

QueryThreshold(thr) ==
    /\ dq' = DaylightQuery(dq.lat, dq.dec, thr)
    /\ UNCHANGED <<appVars, query, dial>>

NextDaylight ==
    \/ \E lat \in QueryLatitudes : QueryLatitude(lat)
    \/ \E dec \in QueryDeclinations : QueryDeclination(dec)
    \/ \E thr \in Thresholds : QueryThreshold(thr)

SpecDaylight == Init /\ [][NextDaylight]_vars

(* the other pure functions: each step is one call *)
FormatTime(v) ==
    /\ query' = FormatQuery(v)
    /\ UNCHANGED <<appVars, dq, dial>>

(* getPhaseName(p), and getPhaseName(1 - p) *)
PhaseName(p) ==
    /\ query' = [fn |-> "getPhaseName", p |-> p, name |-> getPhaseName(p),
                 mirrored |-> getPhaseName(Scale - p),
                 label |-> getPhaseLabel(p)]
    /\ UNCHANGED <<appVars, dq, dial>>

(* getJulianDate(date, t), and getJulianDate of the day after, same t *)
JulianDate(date, t) ==
    /\ query' = [fn |-> "getJulianDate", date |-> date, hour |-> t,
                 jd |-> getJulianDate(date, t),
                 next |-> getJulianDate(nextDay(date), t)]
    /\ UNCHANGED <<appVars, dq, dial>>

NextQueries ==
    \/ \E v \in FormatInputs : FormatTime(v)
    \/ \E p \in PhaseInputs : PhaseName(p)
    \/ \E date \in JulianDates : \E t \in {0, 18 * HourScale} :
           JulianDate(date, t)

SpecQueries == Init /\ [][NextQueries]_vars

(* handlePointerDown, for one pointer: the refs take the props of the last *)
(* render, the first ring hit becomes the active ring                      *)
PointerDown(dist) ==
    /\ dial.activeRing = "none"
    /\ dial' = [dial EXCEPT
                  !.lastTime = dial.time,
                  !.lastDay = getDayOfYear(dial.date),
                  !.activeRing =
                     IF checkHit(RINGS.DATE, dist) THEN "date"
                     ELSE IF checkHit(RINGS.TIME, dist) THEN "time"
                     ELSE IF checkHit(RINGS.LON, dist) THEN "lon"
                     ELSE "none",
                  !.start = currentDate,
                  !.net = 0]
    /\ UNCHANGED <<appVars, dq, query>>

(* handlePointerUp, heard while a ring is active *)
PointerUp ==
    /\ dial.activeRing # "none"
    /\ dial' = [dial EXCEPT !.activeRing = "none"]
    /\ UNCHANGED <<appVars, dq, query>>

(* mutant: the move is taken for a longitude move whatever the ring *)
PointerMoveAsLongitude(angle) ==
    /\ longitude' = ringLongitude(angle)
    /\ UNCHANGED <<currentDate, timeOfDay, latitude, useAnalemma,
                   solarData, orbitalData, now, safeDate,
                   annualData, annualFresh, dq, query, dial>>

(* handlePointerMove at the angle getControlAngle gives, in millidegrees   *)
(* in [0, 360): the handler is the one of the last render, so date is the  *)
(* date prop of that render; the setters take effect at the next render    *)
PointerMove(angle) ==
    IF dial.activeRing = "date"
    THEN \E newDay \in {RDiv(angle * 365, 360 * DegScale)} :
             /\ currentDate' =
                  getDateFromDayOfYear(
                    dial.date.year
                      + (IF newDay - dial.lastDay < -300 THEN 1
                         ELSE IF newDay - dial.lastDay > 300 THEN -1
                         ELSE 0),
                    newDay)
             /\ currentDate' \in DialDates
             /\ dial' = [dial EXCEPT !.lastDay = newDay]
             /\ UNCHANGED <<timeOfDay, latitude, longitude, useAnalemma,
                            solarData, orbitalData, now, safeDate,
                            annualData, annualFresh, dq, query>>
    ELSE IF dial.activeRing = "lon"
    THEN /\ longitude' = ringLongitude(angle)
         /\ UNCHANGED <<currentDate, timeOfDay, latitude, useAnalemma,
                        solarData, orbitalData, now, safeDate,
                        annualData, annualFresh, dq, query, dial>>
    ELSE IF dial.activeRing = "time"
    THEN \E t \in {MulDiv(angle, HourScale, 15 * DegScale)} :
             /\ currentDate' =
                  IF t - dial.lastTime < -12 * HourScale
                  THEN nextDay(dial.date)
                  ELSE IF t - dial.lastTime > 12 * HourScale
                  THEN prevDay(dial.date)
                  ELSE currentDate
             /\ currentDate' \in DialDates
             /\ timeOfDay' = t
             /\ dial' = [dial EXCEPT
                           !.lastTime = t,
                           !.net = @ + (IF t - dial.lastTime < -12 * HourScale
                                        THEN 1
                                        ELSE IF t - dial.lastTime
                                                  > 12 * HourScale
                                        THEN -1
                                        ELSE 0)]
             /\ UNCHANGED <<latitude, longitude, useAnalemma,
                            solarData, orbitalData, now, safeDate,
                            annualData, annualFresh, dq, query>>
    ELSE UNCHANGED vars

(* the dial: pointer events on the three rings, and the renders of the App *)
NextDial ==
    \/ \E dist \in DialDistances : PointerDown(dist)
    \/ \E angle \in {0, 1000, 359600} :
           dial.activeRing = "date" /\ PointerMove(angle)
    \/ \E angle \in {15000, 345000} :
           dial.activeRing = "time" /\ PointerMove(angle)
    \/ dial.activeRing \in {"lon", "none"} /\ PointerMove(270000)
    \/ PointerUp
    \/ Rerender

SpecDial == Init /\ [][NextDial]_vars

(* the latitude slider dragged to a position: onChange = setLatitude *)
SlideLatitude(pct) == SetLatitude(sliderLatitude(pct))

(* pointer-down on a tick of the latitude slider: onChange(p.lat) *)
PresetLatitude(lat) == SetLatitude(lat)

(* handleSave of the precise-input form, opened at the last render: the    *)
(* date and time fields hold the date and formatTime(time) of that render  *)
(* (the date as read back on a clock on UTC), the latitude and longitude   *)
(* fields the entries                                                      *)
ApplyPrecise(latEntry, lonEntry) ==
    /\ dial.activeRing = "none"
    /\ currentDate' = dial.date
    /\ timeOfDay' = parseTime(formatTime(Num(dial.time))).value
    /\ latitude' = preciseLatitude(latEntry)
    /\ longitude' = preciseLongitude(lonEntry)
    /\ UNCHANGED <<useAnalemma, now, dq, query>>
    /\ Render(currentDate', timeOfDay', latitude', longitude', useAnalemma)

(* the controls that set latitude and longitude *)
NextControls ==
    \/ \E pct \in SliderPositions : SlideLatitude(pct)
    \/ \E lat \in PresetLatitudes : PresetLatitude(lat)
    \/ \E latEntry \in PreciseEntries, lonEntry \in PreciseEntries :
           ApplyPrecise(latEntry, lonEntry)
    \/ PointerDown(650)
    \/ \E angle \in LonRingAngles : dial.activeRing = "lon" /\ PointerMove(angle)
    \/ PointerUp
    \/ Rerender

SpecControls == Init /\ [][NextControls]_vars

---------------------------------------------------------------------------
(* Properties of the daylight queries (SpecDaylight)                       *)

ValidQuery ==
    /\ dq.lat >= -90 * DegScale /\ dq.lat <= 90 * DegScale
    /\ dq.dec >= -23440 /\ dq.dec <= 23440
    /\ dq.thr \in Thresholds

(* C1: for every latitude in [-90, 90], declination in [-23.44, 23.44] and *)
(* each of the four twilight thresholds, the day length h returned by      *)
(* calculateDaylightDurationPrecise satisfies 0 <= h <= 24.                *)
DayLengthInRange ==
    ValidQuery => (dq.dayLength >= 0 /\ dq.dayLength <= 24 * HourScale)

(* an ordinary (non-polar) day whose hour angle exceeds 90 degrees *)
DayLengthOrdinaryReached ==
    /\ ValidQuery
    /\ dq.dayLength > 12 * HourScale
    /\ dq.dayLength < 24 * HourScale

(* C2: the two queries agree on the polar classification: the day length   *)
(* is 24 exactly when the sun-hours window is [0, 24], and 0 exactly when  *)
(* the window is [12, 12]; this includes cos(omega) = -1 and = 1.          *)
PolarClassificationAgrees ==
    ValidQuery =>
      /\ (dq.dayLength = 24 * HourScale) <=> (dq.sunHours = <<0, 24 * HourScale>>)
      /\ (dq.dayLength = 0)
           <=> (dq.sunHours = <<12 * HourScale, 12 * HourScale>>)

(* the boundary cos(omega) = -1 exactly: latitude 84, declination 0, civil *)
PolarBoundaryReached ==
    /\ cosOmega(dq.lat, dq.dec, dq.thr) = -Scale
    /\ dq.dayLength = 24 * HourScale
    /\ dq.sunHours = <<0, 24 * HourScale>>

(* C3: getSunHours returns [0, 24] when the sun never sets, [12, 12] when  *)
(* it never rises, otherwise [12 - H/15, 12 + H/15] with H = acos(cosH) in *)
(* degrees; the window is centred on 12 and 0 <= start <= 12 <= end <= 24. *)
SunHoursWindow ==
    ValidQuery =>
      LET c == cosOmega(dq.lat, dq.dec, dq.thr)
          start == dq.sunHours[1]
          end == dq.sunHours[2]
      IN  /\ c < -Scale => dq.sunHours = <<0, 24 * HourScale>>
          /\ c > Scale => dq.sunHours = <<12 * HourScale, 12 * HourScale>>
          /\ (c >= -Scale /\ c <= Scale) =>
               LET H == toDegrees(MathAcos(c))
               IN  /\ 12 * HourScale - start
                        = (HourScale \div (15 * DegScale)) * H
                   /\ end - 12 * HourScale
                        = (HourScale \div (15 * DegScale)) * H
          /\ start + end = 24 * HourScale
          /\ 0 <= start /\ start <= 12 * HourScale
          /\ 12 * HourScale <= end /\ end <= 24 * HourScale

(* an ordinary window wider than 12 hours *)
SunHoursOrdinaryReached ==
    /\ ValidQuery
    /\ dq.sunHours[1] > 0
    /\ dq.sunHours[1] < 6 * HourScale
    /\ dq.sunHours[2] > 18 * HourScale
    /\ dq.sunHours[2] < 24 * HourScale

(* C4: at the poles with the official threshold, dayLength(90, 23.44) = 24 *)
(* and dayLength(90, -23.44) = 0, and by the same rule                     *)
(* dayLength(-90, -23.44) = 24 and dayLength(-90, 23.44) = 0.              *)
PoleSolsticeDayLength ==
    (dq.thr = OFFICIAL) =>
      /\ (dq.lat = 90000 /\ dq.dec = 23440) => dq.dayLength = 24 * HourScale
      /\ (dq.lat = 90000 /\ dq.dec = -23440) => dq.dayLength = 0
      /\ (dq.lat = -90000 /\ dq.dec = -23440) => dq.dayLength = 24 * HourScale
      /\ (dq.lat = -90000 /\ dq.dec = 23440) => dq.dayLength = 0

(* the north pole at the June solstice declination *)
PoleSolsticeReached ==
    /\ dq.thr = OFFICIAL
    /\ dq.lat = 90000
    /\ dq.dec = 23440
    /\ dq.dayLength = 24 * HourScale

(* C5: both queries clamp the latitude to [-89.9, 89.9] before dividing:   *)
(* above 89.9 the results equal those at 89.9, below -89.9 those at -89.9, *)
(* and the divisor cos(lat) * cos(declination) is strictly positive.       *)
LatitudeClamped ==
    ValidQuery =>
      /\ dq.lat > 89900 =>
           /\ dq.dayLength
                = calculateDaylightDurationPrecise(89900, dq.dec, dq.thr)
           /\ dq.sunHours = getSunHours(89900, dq.dec, dq.thr)
      /\ dq.lat < -89900 =>
           /\ dq.dayLength
                = calculateDaylightDurationPrecise(-89900, dq.dec, dq.thr)
           /\ dq.sunHours = getSunHours(-89900, dq.dec, dq.thr)
      /\ denominator(dq.lat, dq.dec) > 0

(* a latitude beyond the clamp, strictly between 89.9 and the pole *)
BeyondClampReached ==
    /\ ValidQuery
    /\ dq.lat = 89950
    /\ dq.dayLength = calculateDaylightDurationPrecise(89900, dq.dec, dq.thr)
    /\ denominator(dq.lat, dq.dec) > 0

---------------------------------------------------------------------------
(* Properties of the engine (Spec)                                         *)

(* C6: getJulianDate for 2000-01-01 with decimal UTC hour 12.0 is exactly  *)
(* 2451545.0 (January is month 13 of 1999 in the formula), so the days     *)
(* since the J2000 epoch are 0.                                            *)
J2000Anchor ==
    (currentDate = MkDate(2000, 0, 1) /\ timeOfDay = 12 * HourScale) =>
      /\ getJulianDate(currentDate, timeOfDay) = 2451545 * DayScale
      /\ solarData.daysSinceEpoch = 0

(* the engine has run on 2000-01-01 12:00 *)
J2000Reached ==
    /\ currentDate = MkDate(2000, 0, 1)
    /\ timeOfDay = 12 * HourScale
    /\ solarData.daysSinceEpoch = 0

PhaseTolerance == Scale \div 2500

(* C8: as n increases by a small step (the mean elongation advances by     *)
(* less than 360 degrees), the phase fraction either increases by the      *)
(* corresponding amount or wraps once from below 1 to above 0; it never    *)
(* decreases otherwise and never jumps, for negative and positive n.       *)
PhaseStep ==
    LET n0 == solarData.daysSinceEpoch
        n1 == solarData'.daysSinceEpoch
        dD == MulDiv(n1 - n0, 48763, 960)
        inc == RDiv(dD, (360 * DegScale) \div Scale)
        p0 == orbitalData.phase.value
        p1 == orbitalData'.phase.value
    IN  (n1 > n0 /\ dD < 360 * DegScale) =>
          \/ /\ p1 >= p0
             /\ Abs(p1 - p0 - inc) <= PhaseTolerance
          \/ /\ p1 < p0
             /\ Abs(p1 + Scale - p0 - inc) <= PhaseTolerance

PhaseMonotoneModuloOne == [][PhaseStep]_vars

(* the day after the new moon of 1999-12-07: n is negative and the phase   *)
(* has wrapped from just below 1 to just above 0                           *)
PhaseJustWrapped ==
    /\ currentDate = MkDate(1999, 11, 8)
    /\ timeOfDay = 12 * HourScale
    /\ solarData.daysSinceEpoch < 0
    /\ orbitalData.phase.value < 300

(* C9: the tide classification is 'Spring Tide' exactly when               *)
(* alignment > 0.8, 'Neap Tide' exactly when alignment < -0.8 and          *)
(* 'Transitional' otherwise; alignment = 1 is Spring, alignment = 0 is     *)
(* Transitional.                                                           *)
TideClassification ==
    LET a == orbitalData.tides.alignment
        type == orbitalData.tides.type
    IN  /\ a >= -Scale /\ a <= Scale
        /\ type \in {"Spring Tide", "Neap Tide", "Transitional"}
        /\ (type = "Spring Tide") <=> (10 * a > 8 * Scale)
        /\ (type = "Neap Tide") <=> (10 * a < -8 * Scale)
        /\ (a = Scale) => (type = "Spring Tide")
        /\ (a = 0) => (type = "Transitional")

(* an alignment of exactly 0.8, which is not yet a spring tide *)
TideBoundaryReached ==
    /\ 10 * orbitalData.tides.alignment = 8 * Scale
    /\ orbitalData.tides.type = "Transitional"

(* C10: the local tide status is 'High Tide' exactly when                  *)
(* (timeUTC - 12) * 15 + longitude - phase * 360, normalised into [0, 360),*)
(* lies within 45 degrees (inclusive) of 0 or of 180, and 'Low Tide'       *)
(* otherwise; negative differences are normalised correctly, so two        *)
(* longitudes 180 degrees apart get the same status.                       *)
LocalTideStatus ==
    LET phase == orbitalData.phase.value
        raw == (timeOfDay - 12 * HourScale) + longitude - 36 * phase
        d == raw % (360 * DegScale)
        near0 == d <= 45 * DegScale \/ 360 * DegScale - d <= 45 * DegScale
        near180 == Abs(d - 180 * DegScale) <= 45 * DegScale
        high == orbitalData.localTideStatus = "High Tide"
    IN  /\ orbitalData.localTideStatus \in {"High Tide", "Low Tide"}
        /\ high <=> (near0 \/ near180)
        /\ \A lon \in {longitude - 180 * DegScale, longitude + 180 * DegScale} :
             (lon >= -180 * DegScale /\ lon <= 180 * DegScale) =>
               (isHighTide(timeOfDay, lon, phase) <=> high)

(* a negative difference that normalises into the window around 180 *)
NegativeDiffHighTide ==
    /\ orbitalData.userRotation - 36 * orbitalData.phase.value < -135 * DegScale
    /\ orbitalData.userRotation - 36 * orbitalData.phase.value > -225 * DegScale
    /\ orbitalData.localTideStatus = "High Tide"

---------------------------------------------------------------------------
(* Properties of the annual series (Spec)                                  *)

(* C11: for every latitude and every year, leap or not, the annual series  *)
(* has exactly 366 entries whose day fields are 1, 2, ..., 366 in strictly *)
(* ascending order.                                                        *)
AnnualSeriesShape ==
    /\ Len(annualData) = 366
    /\ \A k \in 1..366 : annualData[k].day = k
    /\ \A k \in 1..365 : annualData[k].day < annualData[k + 1].day

(* the series of a common year at a pole: its 366th entry is 1 January of  *)
(* the following year                                                      *)
AnnualCommonYearReached ==
    /\ annualFresh
    /\ ~isLeapYear(safeDate.year)
    /\ latitude = 90000
    /\ Len(annualData) = 366
    /\ annualData[366].day = 366

---------------------------------------------------------------------------
(* Properties of the hook called with any arguments (SpecHook)             *)

(* C12: over any sequence of input changes, the annual series is           *)
(* recomputed only at a step where latitude or the calendar year of the    *)
(* date changed; steps that change only the day within the same year, the  *)
(* time of day, the longitude or the equation-of-time flag do not          *)
(* recompute it.  The year is that of the date the hook works on; a step   *)
(* of the wall clock alone calls no hook.                                  *)
AnnualMemoStep ==
    (now' = now) =>
      /\ annualFresh' => (latitude' # latitude \/ safeDate'.year # safeDate.year)
      /\ ( /\ latitude' = latitude
           /\ isValidDate(currentDate) /\ isValidDate(currentDate')
           /\ currentDate'.year = currentDate.year )
           => (~annualFresh' /\ annualData' = annualData)

AnnualRecomputedOnlyOnLatitudeOrYear == [][AnnualMemoStep]_vars

(* the day changed within 2023 and the series was kept *)
AnnualSeriesKept ==
    /\ currentDate = MkDate(2023, 11, 31)
    /\ safeDate = currentDate
    /\ latitude = 51500
    /\ ~annualFresh
    /\ annualData = annualSeriesOf[51500, 2023]

---------------------------------------------------------------------------
(* C13: for every finite number formatTime returns a text HH:MM:SS with   *)
(* HH in 00..23 and MM, SS in 00..59; it never returns 24:00:00, and a     *)
(* time less than half a second below 24 hours gives 00:00:00              *)
FormatTimeClock ==
    (query.fn = "formatTime" /\ query.input.type = "number") =>
        /\ Len(query.text) = 8
        /\ Len(split(query.text)) = 3
        /\ \A i \in 1..3 :
               /\ Len(split(query.text)[i]) = 2
               /\ Number(split(query.text)[i]) # NaN
               /\ Number(split(query.text)[i]).value
                    \in 0..(IF i = 1 THEN 23 ELSE 59)
        /\ query.text # <<"2", "4", ":", "0", "0", ":", "0", "0">>
        /\ (query.input.value \in (24 * HourScale - HourScale \div 7200)
                                     ..(24 * HourScale - 1)
              => query.text = <<"0", "0", ":", "0", "0", ":", "0", "0">>)

(* witness: 23:59:59.76 has been formatted, its seconds rounding up to 60 *)
JustBelowMidnightFormatted ==
    /\ query.fn = "formatTime"
    /\ query.input = Num(24 * HourScale - 1)
    /\ query.text = <<"0", "0", ":", "0", "0", ":", "0", "0">>

---------------------------------------------------------------------------
(* C14: for NaN, null and undefined formatTime returns the placeholder     *)
(* --:-- (a text, not an error)                                            *)
FormatTimePlaceholder ==
    (query.fn = "formatTime" /\ query.input \in {NaN, Null, Undefined}) =>
        query.text = <<"-", "-", ":", "-", "-">>

(* witness: null has been formatted *)
NullFormatted ==
    /\ query.fn = "formatTime"
    /\ query.input = Null
    /\ query.text = <<"-", "-", ":", "-", "-">>

---------------------------------------------------------------------------
(* C15: for a time t in [0, 24) hours, the time parsed from the first two  *)
(* fields of formatTime(t) as hours + minutes/60 differs from t by less    *)
(* than one minute, modulo 24 hours                                        *)
FormatParseRoundTrip ==
    (/\ query.fn = "formatTime"
     /\ query.input.type = "number"
     /\ query.input.value >= 0
     /\ query.input.value < 24 * HourScale) =>
        /\ query.parsed.type = "number"
        /\ \/ (query.parsed.value - query.input.value) % (24 * HourScale)
                < HourScale \div 60
           \/ (query.input.value - query.parsed.value) % (24 * HourScale)
                < HourScale \div 60

(* witness: 10:59:59.76 has been formatted as 11:00:00 and parsed as 11 h *)
RoundedUpTimeParsed ==
    /\ query.fn = "formatTime"
    /\ query.input = Num(11 * HourScale - 1)
    /\ query.parsed = Num(11 * HourScale)

---------------------------------------------------------------------------
(* C16: whatever date the hook is given (null, undefined, not a Date, an   *)
(* invalid Date), the date the engine computes with is a valid one, the    *)
(* wall clock's when the given one is not; the Julian date is computed     *)
(* from a valid date only, nothing is thrown, and solarData, orbitalData   *)
(* and annualData are complete                                             *)
DateFallbackComplete ==
    /\ isValidDate(safeDate)
    /\ (~isValidDate(currentDate) => safeDate \in ClockDates)
    /\ (isValidDate(currentDate) => safeDate = currentDate)
    /\ {solarData, orbitalData} \cap {Thrown, NaNResult} = {}
    /\ solarData.daysSinceEpoch
         = getJulianDate(safeDate, timeOfDay) - J2000_EPOCH * DayScale
    /\ {"dayLength", "sunrise", "sunset", "isPolarNight"}
         \subseteq DOMAIN solarData
    /\ {"positions", "phase", "tides"} \subseteq DOMAIN orbitalData
    /\ Len(annualData) = LastDayIndex + 1

(* witness: the hook was called with an Invalid Date after the clock had   *)
(* moved on, and computed with the clock's date                            *)
InvalidDateReplaced ==
    /\ currentDate = InvalidDate
    /\ now = MkDate(2026, 11, 31)
    /\ safeDate = now
    /\ annualData = annualSeriesOf[latitude, 2026]
    /\ solarData.dayLength > 0

---------------------------------------------------------------------------
(* C17: in the returned solarData, isPolarNight holds exactly when the     *)
(* duration at the official threshold is <= 0, isMidnightSun exactly when  *)
(* it is >= 24 hours, and the two never hold together                      *)
PolarFlagsExact ==
    /\ solarData.dayLength
         = calculateDaylightDurationPrecise(latitude, solarData.declination,
                                            OFFICIAL)
    /\ solarData.isPolarNight <=> (solarData.dayLength <= 0)
    /\ solarData.isMidnightSun <=> (solarData.dayLength >= 24 * HourScale)
    /\ ~(solarData.isPolarNight /\ solarData.isMidnightSun)

(* witness: a polar night has been returned, with day length exactly 0 *)
PolarNightFlagged ==
    /\ solarData.isPolarNight
    /\ ~solarData.isMidnightSun
    /\ solarData.dayLength = 0

---------------------------------------------------------------------------
(* the name on the other side of the cycle *)
mirrorName(name) ==
    CASE name = "Waxing Crescent" -> "Waning Crescent"
      [] name = "Waning Crescent" -> "Waxing Crescent"
      [] name = "Waxing Gibbous" -> "Waning Gibbous"
      [] name = "Waning Gibbous" -> "Waxing Gibbous"
      [] name = "First Quarter" -> "Last Quarter"
      [] name = "Last Quarter" -> "First Quarter"
      [] OTHER -> name

(* C18: getPhaseName maps every phase fraction p in [0, 1) to one of the   *)
(* eight names, and the name of 1 - p is the mirror of the name of p, the  *)
(* bucket boundaries included                                              *)
PhaseNamesMirror ==
    query.fn = "getPhaseName" =>
        /\ query.name \in
             {"New Moon", "Waxing Crescent", "First Quarter",
              "Waxing Gibbous", "Full Moon", "Waning Gibbous",
              "Last Quarter", "Waning Crescent"}
        /\ query.mirrored = mirrorName(query.name)

---------------------------------------------------------------------------
(* C19: the outputs of the hook depend on its five arguments only: a call  *)
(* with the arguments of the call before it, made at whatever moment of    *)
(* the wall clock, returns the same solarData, orbitalData and annualData, *)
(* an absent or invalid date included                                      *)
SameArgumentsSameOutputs ==
    (/\ currentDate' = currentDate
     /\ timeOfDay' = timeOfDay
     /\ latitude' = latitude
     /\ longitude' = longitude
     /\ useAnalemma' = useAnalemma) =>
        /\ solarData' = solarData
        /\ orbitalData' = orbitalData
        /\ annualData' = annualData

OutputsDependOnArgumentsOnly == [][SameArgumentsSameOutputs]_vars

---------------------------------------------------------------------------
(* C20: for every valid date and hour, the Julian date of the next         *)
(* calendar day at the same hour is the Julian date plus exactly one day   *)
JulianDayStep ==
    query.fn = "getJulianDate" => query.next = query.jd + DayScale

(* witness: the step from 29 February 2000 to 1 March 2000 at 18:00 *)
LeapDay2000Stepped ==
    /\ query.fn = "getJulianDate"
    /\ query.date = MkDate(2000, 1, 29)
    /\ query.hour = 18 * HourScale
    /\ query.next = getJulianDate(MkDate(2000, 2, 1), 18 * HourScale)

---------------------------------------------------------------------------
(* C21: for every latitude, declination and threshold the width of the     *)
(* getSunHours window is the duration calculateDaylightDurationPrecise     *)
(* gives: in the ordinary case, for [0, 24] and for [12, 12]               *)
SunHoursWidthIsDayLength ==
    /\ dq.sunHours[2] - dq.sunHours[1] = dq.dayLength
    /\ (dq.sunHours = <<0, 24 * HourScale>> => dq.dayLength = 24 * HourScale)
    /\ (dq.sunHours = <<12 * HourScale, 12 * HourScale>> => dq.dayLength = 0)

(* witness: an ordinary window at a civil-twilight threshold, as wide as   *)
(* the duration                                                            *)
CivilWindowWidthReached ==
    /\ dq.thr = CIVIL
    /\ dq.dayLength > 0
    /\ dq.dayLength < 24 * HourScale
    /\ dq.sunHours[2] - dq.sunHours[1] = dq.dayLength

---------------------------------------------------------------------------
(* C22: in every solarData the four durations are nested by threshold:     *)
(* official <= civil <= nautical <= astronomical                           *)
DurationsNested ==
    /\ solarData.dayLength <= solarData.civil
    /\ solarData.civil <= solarData.nautical
    /\ solarData.nautical <= solarData.astronomical
    /\ solarData.civil
         = calculateDaylightDurationPrecise(latitude, solarData.declination,
                                            CIVIL)

(* witness: four different durations in one solarData *)
DurationsStrictlyNested ==
    /\ 0 < solarData.dayLength
    /\ solarData.dayLength < solarData.civil
    /\ solarData.civil < solarData.nautical
    /\ solarData.nautical < solarData.astronomical

---------------------------------------------------------------------------
(* C23: in every orbitalData, a phase fraction of 0 or 0.5 comes with the  *)
(* tide type Spring Tide and a phase fraction of 0.25 or 0.75 with Neap    *)
(* Tide                                                                    *)
TideFollowsPhase ==
    /\ orbitalData.phase.value \in {0, Scale \div 2}
         => orbitalData.tides.type = "Spring Tide"
    /\ orbitalData.phase.value \in {Scale \div 4, 3 * (Scale \div 4)}
         => orbitalData.tides.type = "Neap Tide"

(* witness: the first quarter of 2024-07-13 at 18:00 *)
FirstQuarterNeap ==
    /\ orbitalData.phase.value = Scale \div 4
    /\ orbitalData.tides.type = "Neap Tide"
    /\ currentDate = MkDate(2024, 6, 13)

---------------------------------------------------------------------------
DateFollowsCrossings ==
    dial.activeRing = "time" =>
        getJulianDate(currentDate, 0)
            = getJulianDate(dial.start, 0) + dial.net * DayScale

(* C26: a move of the date ring made on the rendered date gives a date in  *)
(* the following year when the dial day falls by more than 300, in the     *)
(* preceding year when it rises by more than 300, and in the year of the   *)
(* current date otherwise, day 0 and day 365 included                      *)
DateRingYear ==
    [][(/\ dial.activeRing = "date"
        /\ dial'.activeRing = "date"
        /\ dial.date = currentDate
        /\ (dial'.lastDay # dial.lastDay \/ currentDate' # currentDate))
       => currentDate'.year
            = currentDate.year
                + (IF dial'.lastDay - dial.lastDay < -300 THEN 1
                   ELSE IF dial'.lastDay - dial.lastDay > 300 THEN -1
                   ELSE 0)]_vars

(* C27: a pointer-down inside the drawn band of a ring activates that      *)
(* ring, and one outside every hit zone activates none                     *)
PointerDownActivatesDrawnRing ==
    [][\A dist \in DialDistances :
         PointerDown(dist) =>
            /\ drawnBand(RINGS.DATE, dist) => dial'.activeRing = "date"
            /\ drawnBand(RINGS.TIME, dist) => dial'.activeRing = "time"
            /\ drawnBand(RINGS.LON, dist) => dial'.activeRing = "lon"
            /\ (~checkHit(RINGS.DATE, dist) /\ ~checkHit(RINGS.TIME, dist)
                   /\ ~checkHit(RINGS.LON, dist))
                  => dial'.activeRing = "none"]_vars

(* C28: the dial never changes the latitude; with no ring active it        *)
(* changes neither date, time nor longitude; the date ring changes only    *)
(* the date, the longitude ring only the longitude, the time ring the time *)
(* and, on a move of more than 12 hours from the last dial time, the date; *)
(* pointer-up leaves no ring active                                        *)
DialFrame ==
    [][/\ latitude' = latitude
       /\ dial.activeRing = "none"
             => UNCHANGED <<currentDate, timeOfDay, longitude>>
       /\ dial.activeRing = "date" => UNCHANGED <<timeOfDay, longitude>>
       /\ dial.activeRing = "lon" => UNCHANGED <<currentDate, timeOfDay>>
       /\ dial.activeRing = "time"
             => /\ longitude' = longitude
                /\ currentDate' # currentDate
                      => Abs(timeOfDay' - dial.lastTime) > 12 * HourScale
       /\ PointerUp => dial'.activeRing = "none"]_vars

TimeRingCrossedMidnight ==
    /\ dial.activeRing = "time"
    /\ dial.net = 1
    /\ currentDate = nextDay(dial.start)
    /\ timeOfDay = dial.lastTime
    /\ longitude = 0

(* C29: for every phase in [0, 1) the engine's getPhaseName and the moon   *)
(* disc's getPhaseLabel give the same name                                 *)
PhaseNameIsPhaseLabel ==
    query.fn = "getPhaseName" => query.label = query.name

(* C30: whatever the latitude slider, its ticks, the longitude ring and    *)
(* the precise-input form are made to do, the latitude stays within        *)
(* [-90, 90] degrees and the longitude within [-180, 180] degrees          *)
CoordinatesInRange ==
    /\ -90 * DegScale <= latitude /\ latitude <= 90 * DegScale
    /\ -180 * DegScale <= longitude /\ longitude <= 180 * DegScale

EntriesBeyondRangeApplied ==
    /\ latitude = 90 * DegScale
    /\ longitude = -180 * DegScale
    /\ dial.activeRing = "none"

=========================================================================
